---- MODULE Spec2Model ----
(***************************************************************************)
(* code-to-prompt: ignore-pattern resolution, file enumeration, tree       *)
(* rendering and ordering (src/code_to_prompt/{cli,filesystem,formatters}). *)
(*                                                                         *)
(* Representation of Python values                                         *)
(*   str        a sequence of atoms.  An atom is a run of characters that  *)
(*              the model never splits: either one special character       *)
(*              ("/", "*", "!", "#", " ", "\t", "\n", "\\", ".") or a run  *)
(*              of ordinary characters ("build", ".txt").  Every string of *)
(*              the model has exactly one decomposition into atoms, and    *)
(*              where two names first differ, neither atom is a prefix of  *)
(*              the other unless it ends its name, so atom-wise equality   *)
(*              and ordering agree with Python's.                          *)
(*   Path       a sequence of names (each name a str), from the filesystem *)
(*              root down.                                                 *)
(*   list       a sequence.                                                *)
(*   Optional   a sequence of at most one element: None is <<>>, a value v *)
(*              is <<v>>.                                                  *)
(***************************************************************************)
EXTENDS Integers, Sequences, FiniteSets, TLC

None == <<>>

Some(v) == <<v>>

\* ---------------------------------------------------------------- helpers
Range(s) == {s[i] : i \in 1..Len(s)}

RECURSIVE Flatten(_)
\* concatenation of a sequence of sequences
Flatten(ss) == IF ss = <<>> THEN <<>> ELSE Head(ss) \o Flatten(Tail(ss))

RECURSIVE SeqsUpTo(_, _)
\* all sequences of distinct elements of S of length at most n
SeqsUpTo(S, n) ==
    IF n = 0 THEN {<<>>}
    ELSE LET shorter == SeqsUpTo(S, n - 1)
         IN shorter \cup UNION {{Append(s, x) : x \in S \ Range(s)} :
                                  s \in {t \in shorter : Len(t) = n - 1}}

Drop(s, k) == SubSeq(s, k + 1, Len(s))

IsPrefix(p, s) == Len(p) <= Len(s) /\ SubSeq(s, 1, Len(p)) = p

\* ------------------------------------------------------------ Python str
Whitespace == {" ", "\t", "\n"}

RECURSIVE LStrip(_)
LStrip(s) == IF s # <<>> /\ Head(s) \in Whitespace THEN LStrip(Tail(s)) ELSE s

RECURSIVE RStrip(_)
RStrip(s) ==
    IF s # <<>> /\ s[Len(s)] \in Whitespace THEN RStrip(SubSeq(s, 1, Len(s) - 1)) ELSE s

\* str.strip()
Strip(s) == RStrip(LStrip(s))

\* str.startswith(c) for a one-character c
StartsWith(s, c) == s # <<>> /\ Head(s) = c

\* str.replace("\\", "/")
ReplaceBackslash(s) == [i \in 1..Len(s) |-> IF s[i] = "\\" THEN "/" ELSE s[i]]

\* str.lower(), atom by atom: the upper-case atoms of the model and their images
LowerAtom(a) ==
    CASE a = "A" -> "a"
      [] a = "SRC" -> "src"
      [] a = "X" -> "x"
      [] a = "NOTES" -> "notes"
      [] a = ".MD" -> ".md"
      [] OTHER -> a

Lower(s) == [i \in 1..Len(s) |-> LowerAtom(s[i])]

\* Python's order on the lower-cased atoms that occur in names (code-point order)
AtomOrder ==
    <<".git", ".gitignore", ".log", ".markdown", ".md", ".py", ".txt", "\\", "a", "build",
      "config", "debug", "empty", "guide", "keep", "main", "notes", "other", "out",
      "readme", "src", "x", "y", "z">>

AtomRank(a) == IF \E i \in 1..Len(AtomOrder) : AtomOrder[i] = a
               THEN CHOOSE i \in 1..Len(AtomOrder) : AtomOrder[i] = a
               ELSE 0

RECURSIVE StrLess(_, _)
\* s < t on str
StrLess(s, t) ==
    IF t = <<>> THEN FALSE
    ELSE IF s = <<>> THEN TRUE
    ELSE IF Head(s) = Head(t) THEN StrLess(Tail(s), Tail(t))
    ELSE AtomRank(Head(s)) < AtomRank(Head(t))

\* str.split("/")
RECURSIVE SplitSlash(_)
SplitSlash(s) ==
    IF \A i \in 1..Len(s) : s[i] # "/" THEN <<s>>
    ELSE LET k == CHOOSE i \in 1..Len(s) : s[i] = "/" /\ \A j \in 1..(i - 1) : s[j] # "/"
         IN <<SubSeq(s, 1, k - 1)>> \o SplitSlash(Drop(s, k))

\* ----------------------------------------------------------- pathlib.Path
\* path.relative_to(base) succeeds (otherwise ValueError)
IsRelativeTo(path, base) == IsPrefix(base, path)

\* path.relative_to(base).parts
RelativeParts(path, base) == Drop(path, Len(base))

RECURSIVE JoinParts(_)
\* str() of a relative path: the parts joined by "/", "." when there are none
JoinParts(parts) ==
    IF parts = <<>> THEN <<".">>
    ELSE IF Len(parts) = 1 THEN parts[1]
    ELSE parts[1] \o <<"/">> \o JoinParts(Tail(parts))

\* str(path.relative_to(base))
RelativeStr(path, base) == JoinParts(RelativeParts(path, base))

\* path.name
Name(path) == path[Len(path)]

\* ------------------------------------------- pathspec: GitWildMatchPattern
\* The matcher is the pathspec library's; it is modelled by what its
\* pattern_to_regex and PathSpec.match_file do on "/"-normalised relative paths.
DoubleStar == <<"*", "*">>

\* the pattern text after strip() and without a leading "!"
PatternBody(line) ==
    LET p == Strip(line) IN IF StartsWith(p, "!") THEN Tail(p) ELSE p

\* pattern.include is None: the line is no pattern (empty, a comment, a lone "/")
PatternIsNull(line) ==
    LET p == Strip(line) IN p = <<>> \/ StartsWith(p, "#") \/ p = <<"/">>

\* pattern.include of a pattern: TRUE excludes the file, FALSE (a leading "!")
\* re-includes it
PatternInclude(line) == ~StartsWith(Strip(line), "!")

RECURSIVE CollapseStars(_)
\* consecutive "**" segments count once
CollapseStars(segs) ==
    IF Len(segs) < 2 THEN segs
    ELSE IF segs[1] = DoubleStar /\ segs[2] = DoubleStar THEN CollapseStars(Tail(segs))
    ELSE <<segs[1]>> \o CollapseStars(Tail(segs))

\* the segments the regex is built from: a leading "/" roots the pattern, a
\* pattern of one segment matches at any depth ("**" is put in front), any
\* other pattern is rooted, and a trailing "/" becomes a trailing "**"
PatternSegs(line) ==
    LET segs == CollapseStars(SplitSlash(PatternBody(line)))
        placed == IF segs[1] = <<>> THEN Tail(segs)
                  ELSE IF Len(segs) = 1 \/ (Len(segs) = 2 /\ segs[2] = <<>>)
                       THEN IF segs[1] # DoubleStar THEN <<DoubleStar>> \o segs ELSE segs
                  ELSE segs
    IN IF Len(placed) > 1 /\ placed[Len(placed)] = <<>>
       THEN [placed EXCEPT ![Len(placed)] = DoubleStar]
       ELSE placed

RECURSIVE GlobMatch(_, _)
\* one segment's glob against one name: "*" is [^/]*, anything else is literal
GlobMatch(glob, name) ==
    IF glob = <<>> THEN name = <<>>
    ELSE IF Head(glob) = "*"
         THEN \E k \in 0..Len(name) : GlobMatch(Tail(glob), Drop(name, k))
    ELSE name # <<>> /\ Head(name) = Head(glob) /\ GlobMatch(Tail(glob), Tail(name))

RECURSIVE SegsMatch(_, _)
\* the regex of segments segs against the path components comps (anchored at
\* both ends), component by component
SegsMatch(segs, comps) ==
    LET seg == Head(segs)
        last == Len(segs) = 1
    IN IF seg = DoubleStar
       THEN IF last THEN Len(comps) >= 1                          \* [^/]+(/.*)? or /.*
            ELSE \E k \in 0..Len(comps) :                          \* (.+/)? or (/.+)?
                     SegsMatch(Tail(segs), Drop(comps, k))
       ELSE /\ comps # <<>>
            /\ IF seg = <<"*">> THEN TRUE ELSE GlobMatch(seg, Head(comps))
            /\ IF last THEN TRUE                                   \* (/.*)?$
               ELSE SegsMatch(Tail(segs), Tail(comps))

\* pattern.match_file(file) for a pattern whose include is not None
PatternMatches(line, comps) ==
    LET body == PatternBody(line)
    IN IF body = DoubleStar \o <<"/">> THEN Len(comps) >= 2       \* "**/": ^.+/.*$
       ELSE SegsMatch(PatternSegs(line), comps)

\* PathSpec.from_lines(GitWildMatchPattern, lines): empty lines are skipped
FromLines(lines) == SelectSeq(lines, LAMBDA l : l # <<>>)

\* pathspec.util.normalize_file: a leading "/" or "./" is dropped
NormalizeFile(file) ==
    IF StartsWith(file, "/") THEN Tail(file)
    ELSE IF Len(file) >= 2 /\ file[1] = "." /\ file[2] = "/" THEN Drop(file, 2)
    ELSE file

RECURSIVE CheckMatchFileFirst(_, _, _)
\* first matching pattern wins
CheckMatchFileFirst(patterns, comps, out) ==
    IF patterns = <<>> THEN out
    ELSE IF ~PatternIsNull(Head(patterns)) /\ PatternMatches(Head(patterns), comps)
         THEN PatternInclude(Head(patterns))
    ELSE CheckMatchFileFirst(Tail(patterns), comps, out)

RECURSIVE CheckMatchFile(_, _, _)
\* pathspec.util.check_match_file: the patterns are tried in list order and
\* every pattern that matches overwrites the verdict
CheckMatchFile(patterns, comps, out) ==
    IF patterns = <<>> THEN out
    ELSE CheckMatchFile(Tail(patterns), comps,
             IF ~PatternIsNull(Head(patterns)) /\ PatternMatches(Head(patterns), comps)
             THEN PatternInclude(Head(patterns))
             ELSE out)

\* PathSpec.match_file(file), the PathSpec given by its pattern lines
MatchFile(spec, file) == CheckMatchFile(spec, SplitSlash(NormalizeFile(file)), FALSE)

\* ------------------------------------------------ filesystem.should_ignore
GitDir == <<".git">>

\* the string should_ignore hands to the matcher, None when the matcher is
\* not consulted
MatcherInput(path, base_dir, gitignore_spec) ==
    IF IsRelativeTo(path, base_dir) /\ GitDir \in Range(RelativeParts(path, base_dir))
    THEN None
    ELSE IF gitignore_spec = None THEN None
    ELSE IF IsRelativeTo(path, base_dir)
         THEN Some(ReplaceBackslash(RelativeStr(path, base_dir)))
    ELSE None

\* should_ignore without the unconditional .git rule
ShouldIgnoreNoGitRule(path, base_dir, gitignore_spec) ==
    IF gitignore_spec = None THEN FALSE
    ELSE IF IsRelativeTo(path, base_dir)
         THEN MatchFile(gitignore_spec[1], ReplaceBackslash(RelativeStr(path, base_dir)))
    ELSE FALSE

\* should_ignore that falls back to the path as given when it is not inside
\* base_dir
ShouldIgnoreFallback(path, base_dir, gitignore_spec) ==
    IF GitDir \in Range(IF IsRelativeTo(path, base_dir) THEN RelativeParts(path, base_dir)
                        ELSE path)
    THEN TRUE
    ELSE IF gitignore_spec = None THEN FALSE
    ELSE MatchFile(gitignore_spec[1],
                   ReplaceBackslash(IF IsRelativeTo(path, base_dir)
                                    THEN RelativeStr(path, base_dir)
                                    ELSE JoinParts(path)))

ShouldIgnore(path, base_dir, gitignore_spec) ==
    IF IsRelativeTo(path, base_dir) /\ GitDir \in Range(RelativeParts(path, base_dir))
    THEN TRUE
    ELSE IF gitignore_spec = None THEN FALSE
    ELSE IF IsRelativeTo(path, base_dir)
         THEN MatchFile(gitignore_spec[1], ReplaceBackslash(RelativeStr(path, base_dir)))
    ELSE FALSE

\* ------------------------------------------------------- sorted(..., key=)
\* Python's order on (bool, str) tuples: False < True, then the strings
PairLess(p, q) ==
    \/ (~p[1]) /\ q[1]
    \/ p[1] = q[1] /\ StrLess(p[2], q[2])

RECURSIVE KeyLess(_, _)
\* Python's order on lists of tuples: lexicographic, a proper prefix is smaller
KeyLess(k1, k2) ==
    IF k2 = <<>> THEN FALSE
    ELSE IF k1 = <<>> THEN TRUE
    ELSE IF PairLess(Head(k1), Head(k2)) THEN TRUE
    ELSE IF PairLess(Head(k2), Head(k1)) THEN FALSE
    ELSE KeyLess(Tail(k1), Tail(k2))

RECURSIVE InsertByKey(_, _)
\* e put behind every element whose key is not greater than e's
InsertByKey(s, e) ==
    IF s = <<>> THEN <<e>>
    ELSE IF KeyLess(e.key, Head(s).key) THEN <<e>> \o s
    ELSE <<Head(s)>> \o InsertByKey(Tail(s), e)

RECURSIVE SortByKey(_)
\* sorted() on a list of [item, key]: by key, stable
SortByKey(s) ==
    IF s = <<>> THEN <<>>
    ELSE InsertByKey(SortByKey(SubSeq(s, 1, Len(s) - 1)), s[Len(s)])

Items(s) == [i \in 1..Len(s) |-> s[i].item]

\* ------------------------------------------------------------- the inputs
\* names
N_proj == <<"proj">>
N_build == <<"build">>
N_src == <<"src">>
N_git == <<".git">>
N_keep == <<"keep", ".txt">>
N_out == <<"out", ".txt">>
N_log == <<"debug", ".log">>
N_config == <<"config">>
N_gitignore == <<".gitignore">>
N_A == <<"A">>
N_a == <<"a">>
N_x == <<"x">>
N_y == <<"y">>
N_z == <<"z">>
N_X == <<"X">>
N_other == <<"other">>
N_a_backslash_y == <<"a", "\\", "y">>                      \* a file named a\y
N_readme_md == <<"readme", ".md">>
N_NOTES_MD == <<"NOTES", ".MD">>
N_guide_markdown == <<"guide", ".markdown">>
N_main_py == <<"main", ".py">>
N_empty == <<"empty">>

\* the scan root, an absolute directory
ScanRoot == <<N_proj>>

Under(parts) == ScanRoot \o parts

\* candidate files: ignore patterns and the .git rule
FilePoolIgnore ==
    {Under(<<N_build, N_keep>>), Under(<<N_build, N_out>>), Under(<<N_src, N_out>>),
     Under(<<N_src, N_log>>), Under(<<N_log>>), Under(<<N_git, N_config>>),
     Under(<<N_src, N_git, N_config>>)}

\* candidate files: ordering, with two directories whose names differ in case only
FilePoolOrder ==
    {Under(<<N_A, N_x>>), Under(<<N_A, N_z>>), Under(<<N_a, N_y>>), Under(<<N_y>>)}

\* an enumeration of every candidate entry: the order in which the operating
\* system lists directory entries is this one or its reverse
DiskOrder ==
    <<Under(<<N_build>>), Under(<<N_src>>), Under(<<N_git>>), Under(<<N_log>>),
      Under(<<N_gitignore>>), Under(<<N_A>>), Under(<<N_a>>), Under(<<N_y>>),
      Under(<<N_x>>), Under(<<N_X>>), Under(<<N_a_backslash_y>>),
      Under(<<N_empty>>), Under(<<N_readme_md>>), Under(<<N_NOTES_MD>>),
      Under(<<N_guide_markdown>>), Under(<<N_main_py>>),
      Under(<<N_build, N_keep>>), Under(<<N_build, N_out>>),
      Under(<<N_src, N_out>>), Under(<<N_src, N_log>>), Under(<<N_src, N_git>>),
      Under(<<N_src, N_empty>>),
      Under(<<N_git, N_config>>),
      Under(<<N_A, N_x>>), Under(<<N_A, N_z>>), Under(<<N_a, N_y>>),
      Under(<<N_src, N_git, N_config>>)>>

\* the directories a set of files implies: every proper ancestor below the root
DirsOf(fileset) ==
    UNION {{SubSeq(f, 1, k) : k \in (Len(ScanRoot) + 1)..(Len(f) - 1)} : f \in fileset}

\* what the files of the model hold: every file is readable and holds its own
\* path below the scan root, as ASCII bytes
DefaultContent(fileset) ==
    [f \in fileset |-> [mode |-> "readable", bytes |-> RelativeStr(f, ScanRoot)]]

\* ------------------------------------------------------------------ state
VARIABLES
    working_path,        \* main's path argument, resolved: a file or a directory
    ignore_patterns,     \* main's --ignore: Optional[list[str]]
    extra_ignore,        \* main's --extra-ignore: Optional[list[str]]
    gitignore_lines,     \* the lines of <scan root>/.gitignore, when it is a file
    gitignore_error_at,  \* k > 0: reading the k-th line raises; 0: no read error
    patterns_to_use,     \* main's local
    patterns,            \* load_gitignore's local
    gitignore_patterns,  \* the list load_gitignore's comprehension is building
    read_pos,            \* the number of lines of .gitignore read
    read_failed,         \* load_gitignore's except branch was taken
    disk_files,      \* the regular files on disk (absolute paths)
    disk_dirs,       \* the directories on disk below the scan root
    scan_order,      \* "fwd" / "rev": the order in which directories are listed
    disk_unreadable, \* the directories whose listing is denied
    disk_content,    \* of every regular file: its permission and its bytes
    locale_encoding, \* the encoding open() uses when none is given
    base_dir,        \* main's local: the scan root
    markdown,        \* generate_markdown_output's text, block by block
    content,         \* what read_file_content returned
    error,           \* the exception that left the function called last, "" if none
    pc,              \* the position of the run
    gitignore_spec,  \* Optional[PathSpec]: None, or the pattern lines compiled
    files,           \* the list get_files_recursively returned
    tree,            \* generate_directory_tree's result, a list of rows
    sorted_files,    \* sort_files' result
    calls,           \* every should_ignore call of the run
    output,          \* main's --output: list[str]
    disk_unwritable, \* the output paths whose write_text raises
    output_configs,  \* main's local: the parsed outputs
    handlers,        \* main's local: the handlers, each by the type of its config
    closure_path,    \* get_output_handlers' local path, which the file lambdas read
    handler_index,   \* the number of handlers main's loop has called
    writes,          \* every successful write_text of the run: path and content
    exit_code,       \* None while the command runs, then the process' exit code
    stdout,          \* what the run printed: mode banners and handler output
    default_table,         \* the list constants.DEFAULT_IGNORE_PATTERNS holds
    patterns_to_use_alias, \* the list main's patterns_to_use names: "ignore_patterns"
                           \* (the --ignore list itself) or "own" (a list of its own)
    patterns_alias         \* the list load_gitignore's patterns names:
                           \* "additional_patterns" (the list passed in) or "own"

cli_vars == <<working_path, ignore_patterns, extra_ignore>>

gitignore_file == <<gitignore_lines, gitignore_error_at>>

load_vars == <<patterns_to_use, patterns, gitignore_patterns, read_pos, read_failed>>

disk == <<disk_files, disk_dirs, scan_order, disk_unreadable, disk_content,
         locale_encoding>>

run_vars == <<base_dir, markdown, content, error>>

out_args == <<output, disk_unwritable>>

out_state == <<output_configs, handlers, closure_path, handler_index, writes, exit_code>>

out_vars == <<out_args, out_state, stdout>>

alias_vars == <<default_table, patterns_to_use_alias, patterns_alias>>

vars == <<cli_vars, alias_vars, out_vars, gitignore_file, load_vars, disk, run_vars, pc, gitignore_spec,
          files, tree, sorted_files, calls, out_vars, alias_vars>>

\* the built-in default patterns
DEFAULT_IGNORE_PATTERNS ==
    <<<<".git">>, <<".gitignore">>, <<".gitattributes">>, <<".hg">>, <<".hgignore">>,
      <<".svn">>, <<".python-version">>, <<"pyproject.toml">>, <<"poetry.lock">>,
      <<"requirements.txt">>, <<"Pipfile">>, <<"Pipfile.lock">>, <<"uv.lock">>,
      <<"ruff.toml">>, <<"__pycache__">>, <<"*", ".pyc">>, <<"*", ".pyo">>,
      <<"*", ".pyd">>, <<".pytest_cache">>, <<".coverage">>, <<".tox">>, <<".venv">>,
      <<"venv">>, <<"package.json">>, <<"package-lock.json">>, <<"yarn.lock">>,
      <<"pnpm-lock.yaml">>, <<"bun.lockb">>, <<"node_modules">>, <<".npmrc">>,
      <<".yarnrc">>, <<".vscode">>, <<".idea">>, <<".vs">>, <<"*", ".swp">>,
      <<"*", ".swo">>, <<".DS_Store">>, <<"dist">>, <<"build">>,
      <<"*", ".egg-info">>, <<"*", ".whl">>, <<".env">>, <<".env.", "*">>,
      <<"*", ".cfg">>, <<".editorconfig">>, <<"LICENSE">>, <<"LICENSE.", "*">>,
      <<"COPYING">>, <<"AUTHORS">>>>

\* a process in which main has not run yet
FreshProcess ==
    /\ default_table = DEFAULT_IGNORE_PATTERNS
    /\ patterns_to_use_alias = "own"
    /\ patterns_alias = "own"

\* a run observed without its outputs
NoOutputs ==
    /\ output = <<>>
    /\ disk_unwritable = {}
    /\ output_configs = <<>>
    /\ handlers = <<>>
    /\ closure_path = None
    /\ handler_index = 0
    /\ writes = <<>>
    /\ exit_code = None
    /\ stdout = <<>>

\* --------------------------------------------------------- the filesystem
\* Path.is_file(), Path.is_dir()
IsFile(path) == path \in disk_files

IsDir(path) == path \in disk_dirs \/ path = ScanRoot

Reverse(s) == [i \in 1..Len(s) |-> s[Len(s) + 1 - i]]

\* directory.iterdir() / os.scandir(directory): the entries of a directory in
\* the order the operating system lists them
IterDir(directory) ==
    SelectSeq(IF scan_order = "fwd" THEN DiskOrder ELSE Reverse(DiskOrder),
              LAMBDA p : /\ p \in disk_files \cup disk_dirs
                         /\ Len(p) = Len(directory) + 1
                         /\ IsPrefix(directory, p))

RECURSIVE RGlob(_)
\* directory.rglob("*"): the directories are visited parents first, and of
\* each visited directory every entry is yielded
\* a directory whose listing is denied is passed over without an error
RGlob(directory) ==
    LET entries == IF directory \in disk_unreadable THEN <<>> ELSE IterDir(directory)
        subdirs == SelectSeq(entries, IsDir)
    IN entries \o Flatten([i \in 1..Len(subdirs) |-> RGlob(subdirs[i])])

\* ---------------------------------------- filesystem.get_files_recursively
GetFilesRecursively(directory, spec) ==
    SelectSeq(RGlob(directory),
              LAMBDA item : IsFile(item) /\ ~ShouldIgnore(item, directory, spec))

\* one should_ignore call: its arguments, what it handed to the matcher, its result
Call(by, path, base, spec) ==
    [by |-> by, path |-> path, base_dir |-> base,
     arg |-> MatcherInput(path, base, spec),
     result |-> ShouldIgnore(path, base, spec)]

GetFilesCalls(directory, spec) ==
    {Call("get_files_recursively", item, directory, spec) :
        item \in {i \in Range(RGlob(directory)) : IsFile(i)}}

\* --------------------------------------------- filesystem.read_file_content
\* Bytes are atoms as well: "a", "\n" and "\r" are the ASCII bytes, "c3a9" is the
\* two-byte UTF-8 form of e-acute, "ff" is a byte no UTF-8 text contains.  Any
\* other atom stands for a run of ASCII bytes.
DecodeUtf8Atom(b) == IF b = "c3a9" THEN <<"e_acute">> ELSE <<b>>

DecodeLatin1Atom(b) ==
    CASE b = "c3a9" -> <<"A_tilde", "copyright_sign">>
      [] b = "ff" -> <<"y_diaeresis">>
      [] OTHER -> <<b>>

\* bytes.decode(encoding): None stands for UnicodeDecodeError
Decode(bytes, encoding) ==
    IF encoding = "utf-8"
    THEN IF "ff" \in Range(bytes) THEN None
         ELSE Some(Flatten([i \in 1..Len(bytes) |-> DecodeUtf8Atom(bytes[i])]))
    ELSE Some(Flatten([i \in 1..Len(bytes) |-> DecodeLatin1Atom(bytes[i])]))

RECURSIVE TranslateNewlines(_)
\* text mode with newline=None: "\r\n" and "\r" are read as "\n"
TranslateNewlines(s) ==
    IF s = <<>> THEN <<>>
    ELSE IF Head(s) = "\r"
         THEN IF Len(s) >= 2 /\ s[2] = "\n"
              THEN <<"\n">> \o TranslateNewlines(Drop(s, 2))
              ELSE <<"\n">> \o TranslateNewlines(Tail(s))
    ELSE <<Head(s)>> \o TranslateNewlines(Tail(s))

\* Path.read_text(encoding): the exception it raises ("" for none) and the text
ReadText(path, encoding) ==
    IF path \notin disk_files THEN [exc |-> "FileNotFoundError", text |-> <<>>]
    ELSE IF disk_content[path].mode = "denied"
         THEN [exc |-> "PermissionError", text |-> <<>>]
    ELSE LET decoded == Decode(disk_content[path].bytes, encoding)
         IN IF decoded = None THEN [exc |-> "UnicodeDecodeError", text |-> <<>>]
            ELSE [exc |-> "", text |-> TranslateNewlines(decoded[1])]

\* read_file_content: the exception that leaves it ("" for none) and its
\* Optional[str] result.  Only UnicodeDecodeError of the first attempt is
\* handled; the second attempt's failures of any kind give None.
ReadFileContent(file_path) ==
    LET first == ReadText(file_path, "utf-8")
    IN IF first.exc = "" THEN [exc |-> "", value |-> Some(first.text)]
       ELSE IF first.exc = "UnicodeDecodeError"
            THEN LET second == ReadText(file_path, locale_encoding)
                 IN IF second.exc = "" THEN [exc |-> "", value |-> Some(second.text)]
                    ELSE [exc |-> "", value |-> None]
       ELSE [exc |-> first.exc, value |-> None]

\* ------------------------------------------------------------- formatters
\* get_path_sort_key: (is_file, lower-cased name) of every component
GetPathSortKey(path, base) ==
    LET parts == RelativeParts(path, base)
    IN [i \in 1..Len(parts) |->
           IF i < Len(parts)
           THEN <<IsFile(SubSeq(path, 1, Len(base) + i)), Lower(parts[i])>>
           ELSE <<IsFile(path), Lower(parts[i])>>]

\* sort_files
SortFiles(file_list, base) ==
    Items(SortByKey([i \in 1..Len(file_list) |->
        [item |-> file_list[i], key |-> GetPathSortKey(file_list[i], base)]]))

\* the tree's glyphs, in ASCII: "+-- " is the last-entry connector, "|-- " the
\* connector of any other entry, "|   " and "    " the continuation prefixes
LastConnector == "+-- "
MidConnector == "|-- "
MidIndent == "|   "
LastIndent == "    "

\* the entries sorted by lower-cased name only
SortedContentsByName(directory) ==
    LET entries == IterDir(directory)
    IN Items(SortByKey([i \in 1..Len(entries) |->
           [item |-> entries[i], key |-> <<<<FALSE, Lower(Name(entries[i]))>>>>]]))

\* sorted(directory.iterdir(), key=lambda p: (p.is_file(), p.name.lower()))
SortedContents(directory) ==
    LET entries == IterDir(directory)
    IN Items(SortByKey([i \in 1..Len(entries) |->
           [item |-> entries[i],
            key |-> <<<<IsFile(entries[i]), Lower(Name(entries[i]))>>>>]]))

\* the line an empty string contributes to the text it is joined into
EmptyLine == [text |-> <<>>, path |-> <<>>]

\* "\n".join(tree): the lines of the joined text, each string of the list
\* given as its lines; an empty string between others is an empty line, and a
\* text of one empty line is the empty string
JoinLines(parts) ==
    LET rows == Flatten([i \in 1..Len(parts) |->
                    IF parts[i] = <<>> THEN <<EmptyLine>> ELSE parts[i]])
    IN IF rows = <<EmptyLine>> THEN <<>> ELSE rows

RECURSIVE TreeRows(_, _, _)
\* generate_directory_tree appending every subtree, the empty ones too
TreeRowsUnguarded(directory, spec, prefix) ==
    LET contents == SortedContents(directory)
        PartsOf(i) ==
            LET path == contents[i]
                is_last == i = Len(contents)
                current_prefix == IF is_last THEN LastConnector ELSE MidConnector
                next_prefix == IF is_last THEN LastIndent ELSE MidIndent
            IN IF ShouldIgnore(path, directory, spec) THEN <<>>
               ELSE <<<<[text |-> prefix \o <<current_prefix>> \o Name(path), path |-> path]>>>>
                    \o (IF IsDir(path)
                        THEN <<TreeRows(path, spec, prefix \o <<next_prefix>>)>>
                        ELSE <<>>)
    IN JoinLines(Flatten([i \in 1..Len(contents) |-> PartsOf(i)]))

\* generate_directory_tree: one row per line of the returned text, with the
\* entry the line is for.  Every entry is classified against the directory
\* being listed.  The list called tree holds one string per entry and one per
\* non-empty subtree.
TreeRows(directory, spec, prefix) ==
    LET contents == SortedContents(directory)
        PartsOf(i) ==
            LET path == contents[i]
                is_last == i = Len(contents)
                current_prefix == IF is_last THEN LastConnector ELSE MidConnector
                next_prefix == IF is_last THEN LastIndent ELSE MidIndent
                subtree == TreeRows(path, spec, prefix \o <<next_prefix>>)
            IN IF ShouldIgnore(path, directory, spec) THEN <<>>
               ELSE <<<<[text |-> prefix \o <<current_prefix>> \o Name(path), path |-> path]>>>>
                    \o (IF IsDir(path) /\ subtree # <<>> THEN <<subtree>> ELSE <<>>)
    IN JoinLines(Flatten([i \in 1..Len(contents) |-> PartsOf(i)]))

RECURSIVE TreeCalls(_, _)
\* the should_ignore calls generate_directory_tree makes
TreeCalls(directory, spec) ==
    LET contents == Range(IterDir(directory))
    IN {Call("generate_directory_tree", path, directory, spec) : path \in contents}
       \cup UNION {TreeCalls(path, spec) :
                      path \in {q \in contents : IsDir(q) /\ ~ShouldIgnore(q, directory, spec)}}

\* generate_directory_tree raises: directory.iterdir() is denied for the
\* directory itself or for a directory the recursion enters, which it does
\* when no directory on the way down is ignored relative to its parent
TreeRaises(directory, spec) ==
    \E d \in disk_unreadable :
        /\ IsPrefix(directory, d)
        /\ \A k \in (Len(directory) + 1)..Len(d) :
               ~ShouldIgnore(SubSeq(d, 1, k), SubSeq(d, 1, k - 1), spec)

\* sort_files raises ValueError: get_path_sort_key's relative_to fails for a file
SortFilesRaises(file_list, base) ==
    \E i \in 1..Len(file_list) : ~IsRelativeTo(file_list[i], base)

\* the atoms that are a file name's extension
SuffixAtoms == {".txt", ".log", ".md", ".MD", ".markdown", ".py"}

\* file.suffix.lower()
Suffix(path) ==
    LET n == Name(path)
    IN IF Len(n) >= 2 /\ n[Len(n)] \in SuffixAtoms THEN LowerAtom(n[Len(n)]) ELSE ""

\* EXTENSIONS_MAP.get(suffix, ""), for the suffixes of the model
EXTENSIONS_MAP(suffix) ==
    CASE suffix = ".py" -> "python"
      [] suffix = ".md" -> "markdown"
      [] OTHER -> ""

\* get_file_language
GetFileLanguage(file_path) == EXTENSIONS_MAP(Suffix(file_path))

\* str(path) of an absolute path
AbsoluteStr(path) == <<"/">> \o JoinParts(path)

Block(kind, text) == [kind |-> kind, text |-> text, language |-> ""]

\* a fenced block: the fence's language tag and the text inside
CodeBlock(language, text) == [kind |-> "code", text |-> text, language |-> language]

\* one iteration of generate_markdown_output's loop: the exception that leaves
\* it ("" for none) and the blocks it appends
FileBlocks(file, base) ==
    IF ~IsRelativeTo(file, base)
    THEN [exc |-> "",
          blocks |-> <<Block("file_header", AbsoluteStr(file)),
                       Block("path_error", <<>>)>>]
    ELSE LET relative_path == ReplaceBackslash(RelativeStr(file, base))
             read == ReadFileContent(file)
         IN IF read.exc # "" THEN [exc |-> read.exc, blocks |-> <<>>]
            ELSE [exc |-> "",
                  blocks |-> <<Block("file_header", relative_path),
                               IF read.value = None THEN Block("unreadable", <<>>)
                               ELSE IF Suffix(file) = ".md"
                                    THEN Block("raw", read.value[1])
                               ELSE CodeBlock(GetFileLanguage(file), read.value[1])>>]

RECURSIVE RenderFiles(_, _)
\* the loop over sorted_files, left by the first exception
RenderFiles(file_list, base) ==
    IF file_list = <<>> THEN [exc |-> "", blocks |-> <<>>]
    ELSE LET first == FileBlocks(Head(file_list), base)
         IN IF first.exc # "" THEN first
            ELSE LET rest == RenderFiles(Tail(file_list), base)
                 IN IF rest.exc # "" THEN rest
                    ELSE [exc |-> "", blocks |-> first.blocks \o rest.blocks]

\* generate_markdown_output: the exception that leaves it ("" for none), the
\* tree rows, the sorted list, the text as blocks, and whether
\* generate_directory_tree was called and returned
GenerateMarkdownOutput(file_list, base, spec, is_file_mode) ==
    LET raised(exc, tree_done) ==
            [exc |-> exc, tree |-> <<>>, sorted_files |-> <<>>, markdown |-> <<>>,
             tree_done |-> tree_done]
        head == IF is_file_mode THEN <<Block("h1", <<"File Summary">>)>>
                ELSE <<Block("h1", <<"Codebase Contents">>),
                       Block("h2", <<"Directory Structure">>),
                       Block("tree", Name(base))>>
        rows == IF is_file_mode THEN <<>> ELSE TreeRows(base, spec, <<>>)
    IN IF ~is_file_mode /\ TreeRaises(base, spec) THEN raised("PermissionError", FALSE)
       ELSE IF SortFilesRaises(file_list, base) THEN raised("ValueError", ~is_file_mode)
       ELSE LET sorted == SortFiles(file_list, base)
                body == RenderFiles(sorted, base)
            IN IF body.exc # "" THEN raised(body.exc, ~is_file_mode)
               ELSE [exc |-> "", tree |-> rows, sorted_files |-> sorted,
                     tree_done |-> ~is_file_mode,
                     markdown |-> head \o <<Block("h2", <<"File Contents">>)>>
                                       \o body.blocks]

\* ------------------------------------------------------- pattern inputs
Pat_build_dir == <<"build", "/">>                          \* build/
Pat_build == <<"build">>                                   \* build
Pat_keep_neg == <<"!", "build", "/", "keep", ".txt">>      \* !build/keep.txt
Pat_logs == <<"*", ".log">>                                \* *.log
Pat_log_neg == <<"!", "debug", ".log">>                    \* !debug.log
Pat_git_neg == <<"!", ".git">>                             \* !.git
Pat_src_logs == <<"src", "/", "*", ".log">>                \* src/*.log

PatternPool ==
    {Pat_build_dir, Pat_build, Pat_keep_neg, Pat_logs, Pat_log_neg, Pat_git_neg,
     Pat_src_logs}

\* the longest pattern list the matcher is built from
MaxPatterns == 2

\* the largest number of files on disk
MaxFiles == 3

\* the matchers of the walk: None, or a PathSpec of at most MaxPatterns
\* different lines
MatcherPool == {None} \cup {Some(FromLines(l)) : l \in SeqsUpTo(PatternPool, MaxPatterns)}

TreePool(pool) == {t \in SUBSET pool : Cardinality(t) <= MaxFiles}

\* ------------------------------------------------------------- the walk
\* The functions called on a directory with a given matcher, as main and the
\* tests call them: get_files_recursively, then generate_markdown_output.
InitWalk ==
    /\ \E t \in TreePool(FilePoolIgnore) \cup TreePool(FilePoolOrder) :
          /\ disk_files = t
          /\ disk_dirs = DirsOf(t)
    /\ scan_order \in {"fwd", "rev"}
    /\ gitignore_spec \in MatcherPool
    /\ pc = "scan"
    /\ disk_unreadable = {}
    /\ disk_content = DefaultContent(disk_files)
    /\ locale_encoding = "utf-8"
    /\ working_path = ScanRoot
    /\ base_dir = ScanRoot
    /\ markdown = <<>>
    /\ content = None
    /\ error = ""
    /\ ignore_patterns = None
    /\ extra_ignore = None
    /\ gitignore_lines = <<>>
    /\ gitignore_error_at = 0
    /\ patterns_to_use = <<>>
    /\ patterns = <<>>
    /\ gitignore_patterns = <<>>
    /\ read_pos = 0
    /\ read_failed = FALSE
    /\ files = <<>>
    /\ tree = <<>>
    /\ sorted_files = <<>>
    /\ calls = {}
    /\ NoOutputs
    /\ FreshProcess

CallGetFilesRecursively ==
    /\ pc = "scan"
    /\ files' = GetFilesRecursively(base_dir, gitignore_spec)
    /\ calls' = calls \cup GetFilesCalls(base_dir, gitignore_spec)
    /\ pc' = "render"
    /\ UNCHANGED <<run_vars, cli_vars, alias_vars, out_vars, gitignore_file, load_vars, disk, gitignore_spec, tree,
                   sorted_files>>

\* generate_markdown_output(files, base_dir, gitignore_spec,
\* is_file_mode=working_path.is_file()).  calls records the classifications of
\* a tree that was rendered to its end.
CallGenerateMarkdownOutput ==
    /\ pc = "render"
    /\ \E out \in {GenerateMarkdownOutput(files, base_dir, gitignore_spec,
                                           IsFile(working_path))} :
          /\ tree' = out.tree
          /\ sorted_files' = out.sorted_files
          /\ markdown' = out.markdown
          /\ error' = out.exc
          /\ calls' = IF ~out.tree_done THEN calls
                      ELSE calls \cup TreeCalls(base_dir, gitignore_spec)
    /\ pc' = "output"
    /\ UNCHANGED <<base_dir, content, cli_vars, alias_vars, out_vars, gitignore_file, load_vars, disk,
                   gitignore_spec, files>>

Walk == CallGetFilesRecursively \/ CallGenerateMarkdownOutput

SpecWalk == InitWalk /\ [][Walk]_vars

\* ------------------------------------------------------------ cli.main
\* an empty --ignore list is taken for an absent one
PatternsToUseTruthy(ignore, extra) ==
    IF ignore # None /\ ignore[1] # <<>> THEN ignore[1]
    ELSE IF extra # None /\ extra[1] # <<>> THEN default_table \o extra[1]
    ELSE default_table

\* the extra patterns are put in front of the defaults
PatternsToUseExtraFirst(ignore, extra) ==
    IF ignore # None THEN ignore[1]
    ELSE IF extra # None /\ extra[1] # <<>> THEN extra[1] \o default_table
    ELSE default_table

\* main, directory mode: the patterns handed to load_gitignore
PatternsToUse(ignore, extra) ==
    IF ignore # None THEN ignore[1]
    ELSE IF extra # None /\ extra[1] # <<>> THEN default_table \o extra[1]
    ELSE default_table

\* print("File mode: ...") / print("Directory mode: ...")
Banner(mode) == [kind |-> "banner", text |-> mode]

\* directory mode, up to the call of load_gitignore
Main_SelectPatterns ==
    /\ pc = "main"
    /\ ~IsFile(working_path)
    /\ stdout' = Append(stdout, Banner("Directory mode"))
    /\ base_dir' = working_path
    /\ patterns_to_use' = PatternsToUse(ignore_patterns, extra_ignore)
    /\ patterns_to_use_alias' = IF ignore_patterns # None THEN "ignore_patterns" ELSE "own"
    /\ pc' = "load_gitignore"
    /\ UNCHANGED <<markdown, content, error, cli_vars, default_table, patterns_alias, out_args, out_state, gitignore_file, patterns,
                   gitignore_patterns, read_pos, read_failed, disk, gitignore_spec,
                   files, tree, sorted_files, calls>>

\* path.parent
Parent(path) == SubSeq(path, 1, Len(path) - 1)

\* the file list of single-file mode
FileModeFiles(path) == <<path>>

\* single-file mode in which --ignore is applied to the named file
Main_FileModeFiltered ==
    /\ pc = "main"
    /\ IsFile(working_path)
    /\ stdout' = Append(stdout, Banner("File mode"))
    /\ base_dir' = Parent(working_path)
    /\ files' = IF /\ ignore_patterns # None
                   /\ MatchFile(FromLines(ignore_patterns[1]), Name(working_path))
                THEN <<>>
                ELSE FileModeFiles(working_path)
    /\ patterns_to_use' = default_table               \* DEFAULT_IGNORE_PATTERNS.copy()
    /\ patterns_to_use_alias' = "own"
    /\ pc' = "load_gitignore"
    /\ UNCHANGED <<markdown, content, error, cli_vars, default_table, patterns_alias, out_args, out_state, gitignore_file, patterns,
                   gitignore_patterns, read_pos, read_failed, disk, gitignore_spec,
                   tree, sorted_files, calls>>

\* single-file mode, up to the call of load_gitignore: the patterns handed over
\* are the defaults, whatever --ignore and --extra-ignore are
Main_FileMode ==
    /\ pc = "main"
    /\ IsFile(working_path)
    /\ stdout' = Append(stdout, Banner("File mode"))
    /\ base_dir' = Parent(working_path)
    /\ files' = FileModeFiles(working_path)
    /\ patterns_to_use' = default_table               \* DEFAULT_IGNORE_PATTERNS.copy()
    /\ patterns_to_use_alias' = "own"
    /\ pc' = "load_gitignore"
    /\ UNCHANGED <<markdown, content, error, cli_vars, default_table, patterns_alias, out_args, out_state, gitignore_file, patterns,
                   gitignore_patterns, read_pos, read_failed, disk, gitignore_spec,
                   tree, sorted_files, calls>>

\* --------------------------------------------- filesystem.load_gitignore
GitignorePath == base_dir \o <<N_gitignore>>

\* the comprehension's filter and element
KeepLine(line) == Strip(line) # <<>> /\ ~StartsWith(line, "#")

\* patterns = additional_patterns, with no copy
LoadGitignore_BeginNoCopy ==
    /\ pc = "load_gitignore"
    /\ patterns' = patterns_to_use
    /\ patterns_alias' = "additional_patterns"
    /\ gitignore_patterns' = <<>>
    /\ read_pos' = 0
    /\ pc' = IF IsFile(GitignorePath) THEN "read" ELSE "compile"
    /\ UNCHANGED <<run_vars, cli_vars, default_table, patterns_to_use_alias, out_vars,
                   gitignore_file, patterns_to_use, read_failed, disk,
                   gitignore_spec, files, tree, sorted_files, calls>>

\* patterns = additional_patterns.copy(); is .gitignore a file?
LoadGitignore_Begin ==
    /\ pc = "load_gitignore"
    /\ patterns' = patterns_to_use
    /\ patterns_alias' = "own"
    /\ gitignore_patterns' = <<>>
    /\ read_pos' = 0
    /\ pc' = IF IsFile(GitignorePath) THEN "read" ELSE "compile"
    /\ UNCHANGED <<run_vars, cli_vars, default_table, patterns_to_use_alias, out_vars, gitignore_file, patterns_to_use, read_failed, disk,
                   gitignore_spec, files, tree, sorted_files, calls>>

\* every kept line is appended to patterns as soon as it is read
LoadGitignore_ReadLineIncremental ==
    /\ pc = "read"
    /\ read_pos < Len(gitignore_lines)
    /\ gitignore_error_at # read_pos + 1
    /\ read_pos' = read_pos + 1
    /\ patterns' = IF KeepLine(gitignore_lines[read_pos + 1])
                   THEN Append(patterns, Strip(gitignore_lines[read_pos + 1]))
                   ELSE patterns
    /\ UNCHANGED <<run_vars, cli_vars, alias_vars, out_vars, gitignore_file, patterns_to_use, gitignore_patterns,
                   read_failed, disk, pc, gitignore_spec, files, tree, sorted_files,
                   calls>>

\* one iteration of the comprehension over the open file
LoadGitignore_ReadLine ==
    /\ pc = "read"
    /\ read_pos < Len(gitignore_lines)
    /\ gitignore_error_at # read_pos + 1
    /\ read_pos' = read_pos + 1
    /\ gitignore_patterns' =
           IF KeepLine(gitignore_lines[read_pos + 1])
           THEN Append(gitignore_patterns, Strip(gitignore_lines[read_pos + 1]))
           ELSE gitignore_patterns
    /\ UNCHANGED <<run_vars, cli_vars, alias_vars, out_vars, gitignore_file, patterns_to_use, patterns, read_failed,
                   disk, pc, gitignore_spec, files, tree, sorted_files, calls>>

\* open() or the read of the next line raises: the except branch warns
LoadGitignore_ReadError ==
    /\ pc = "read"
    /\ gitignore_error_at = read_pos + 1
    /\ read_failed' = TRUE
    /\ pc' = "compile"
    /\ UNCHANGED <<run_vars, cli_vars, alias_vars, out_vars, gitignore_file, patterns_to_use, patterns,
                   gitignore_patterns, read_pos, disk, gitignore_spec, files, tree,
                   sorted_files, calls>>

\* the file is exhausted: patterns.extend(gitignore_patterns)
LoadGitignore_Extend ==
    /\ pc = "read"
    /\ read_pos = Len(gitignore_lines)
    /\ gitignore_error_at # read_pos + 1
    /\ LET extended == patterns \o gitignore_patterns
           shared == patterns_alias = "additional_patterns"
       IN /\ patterns' = extended
          \* extend changes the list, under every name it has
          /\ patterns_to_use' = IF shared THEN extended ELSE patterns_to_use
          /\ ignore_patterns' = IF shared /\ patterns_to_use_alias = "ignore_patterns"
                                THEN Some(extended)
                                ELSE ignore_patterns
    /\ pc' = "compile"
    /\ UNCHANGED <<run_vars, working_path, extra_ignore, alias_vars, out_vars, gitignore_file,
                   gitignore_patterns, read_pos, read_failed, disk, gitignore_spec, files,
                   tree, sorted_files, calls>>

\* return PathSpec.from_lines(GitWildMatchPattern, patterns)
LoadGitignore_Return ==
    /\ pc = "compile"
    /\ gitignore_spec' = Some(FromLines(patterns))
    /\ pc' = IF IsFile(working_path) THEN "render" ELSE "scan"
    /\ UNCHANGED <<run_vars, cli_vars, alias_vars, out_vars, gitignore_file, load_vars, disk, files, tree,
                   sorted_files, calls>>

LoadGitignore ==
    \/ LoadGitignore_Begin
    \/ LoadGitignore_ReadLine
    \/ LoadGitignore_ReadError
    \/ LoadGitignore_Extend
    \/ LoadGitignore_Return

\* ----------------------------------------------------- inputs of a run
Pat_txt == <<"*", ".txt">>                                 \* *.txt

\* the --ignore and --extra-ignore values: absent, or a list of different lines
IgnoreArgPool == {None} \cup {Some(l) : l \in SeqsUpTo({Pat_logs}, MaxPatterns)}

ExtraArgPool == {None} \cup {Some(l) : l \in SeqsUpTo({Pat_txt}, MaxPatterns)}

\* lines of .gitignore, as iterating the file yields them
Line_logs == <<"\t", "*", ".log", " ", "\n">>              \* a padded *.log
Line_blank == <<" ", "\n">>
Line_comment == <<"#", "note", "\n">>
Line_indented_comment == <<" ", "#", "note", "\n">>
Line_neg_build == <<"!", "build", "\n">>                   \* !build

LinePool == {Line_logs, Line_blank, Line_comment, Line_indented_comment, Line_neg_build}

\* the longest .gitignore
MaxLines == 2

\* the files of the scanned project, .gitignore apart
ProjectFiles ==
    {Under(<<N_build, N_out>>), Under(<<N_src, N_out>>), Under(<<N_src, N_log>>),
     Under(<<N_log>>), Under(<<N_git, N_config>>)}

\* a run of main on a directory
Init ==
    /\ working_path = ScanRoot
    /\ base_dir = <<>>
    /\ disk_unreadable = {}
    /\ locale_encoding = "utf-8"
    /\ markdown = <<>>
    /\ content = None
    /\ error = ""
    /\ ignore_patterns \in IgnoreArgPool
    /\ extra_ignore \in ExtraArgPool
    /\ \/ /\ disk_files = ProjectFiles
          /\ gitignore_lines = <<>>
          /\ gitignore_error_at = 0
       \/ /\ disk_files = ProjectFiles \cup {Under(<<N_gitignore>>)}
          /\ gitignore_lines \in SeqsUpTo(LinePool, MaxLines)
          /\ gitignore_error_at \in 0..(IF gitignore_lines = <<>> THEN 1
                                        ELSE Len(gitignore_lines))
    /\ disk_dirs = DirsOf(ProjectFiles)
    /\ disk_content = DefaultContent(disk_files)
    /\ scan_order \in {"fwd", "rev"}
    /\ pc = "main"
    /\ patterns_to_use = <<>>
    /\ patterns = <<>>
    /\ gitignore_patterns = <<>>
    /\ read_pos = 0
    /\ read_failed = FALSE
    /\ gitignore_spec = None
    /\ files = <<>>
    /\ tree = <<>>
    /\ sorted_files = <<>>
    /\ calls = {}
    /\ NoOutputs
    /\ FreshProcess

Next == Main_SelectPatterns \/ LoadGitignore \/ Walk

Spec == Init /\ [][Next]_vars

\* ------------------------------------------------- parts of initial states
NoArguments == ignore_patterns = None /\ extra_ignore = None

NoGitignore == gitignore_lines = <<>> /\ gitignore_error_at = 0

NothingLoaded ==
    /\ patterns_to_use = <<>>
    /\ patterns = <<>>
    /\ gitignore_patterns = <<>>
    /\ read_pos = 0
    /\ read_failed = FALSE

NoResults ==
    /\ files = <<>>
    /\ tree = <<>>
    /\ sorted_files = <<>>
    /\ calls = {}
    /\ markdown = <<>>
    /\ content = None
    /\ error = ""

\* ---------------------------------------------------- main on a file
\* the files main is run on
FileArgPool == {Under(<<N_log>>), Under(<<N_build, N_out>>), Under(<<N_git, N_config>>)}

\* a run of main on a file of the project
InitFile ==
    /\ working_path \in FileArgPool
    /\ base_dir = <<>>
    /\ disk_unreadable = {}
    /\ locale_encoding = "utf-8"
    /\ markdown = <<>>
    /\ content = None
    /\ error = ""
    /\ ignore_patterns \in IgnoreArgPool
    /\ extra_ignore \in ExtraArgPool
    /\ \/ /\ disk_files = ProjectFiles
          /\ gitignore_lines = <<>>
          /\ gitignore_error_at = 0
       \/ /\ disk_files = ProjectFiles \cup {Under(<<N_gitignore>>)}
          /\ gitignore_lines \in SeqsUpTo(LinePool, MaxLines)
          /\ gitignore_error_at \in 0..(IF gitignore_lines = <<>> THEN 1
                                        ELSE Len(gitignore_lines))
    /\ disk_dirs = DirsOf(ProjectFiles)
    /\ disk_content = DefaultContent(disk_files)
    /\ scan_order = "fwd"
    /\ pc = "main"
    /\ gitignore_spec = None
    /\ files = <<>>
    /\ tree = <<>>
    /\ sorted_files = <<>>
    /\ calls = {}
    /\ NothingLoaded
    /\ NoOutputs
    /\ FreshProcess

NextFile == Main_FileMode \/ LoadGitignore \/ CallGenerateMarkdownOutput

SpecFile == InitFile /\ [][NextFile]_vars

\* ------------------------------------------------ read_file_content alone
\* the bytes a file is made of
BytePool == {"a", "\n", "\r", "c3a9", "ff"}

\* the longest file
MaxBytes == 3

ByteStrings == UNION {[1..n -> BytePool] : n \in 0..MaxBytes}

\* the encodings of the locale
LocalePool == {"utf-8", "latin-1"}

\* read_file_content called on a path, as the tests call it: the file is
\* missing, or it is there with some bytes, readable or not
InitRead ==
    /\ working_path = Under(<<N_x>>)
    /\ base_dir = ScanRoot
    /\ \/ /\ disk_files = {}
          /\ disk_content = DefaultContent({})
       \/ /\ disk_files = {working_path}
          /\ \E mode \in {"readable", "denied"}, bytes \in ByteStrings :
                disk_content = [f \in disk_files |-> [mode |-> mode, bytes |-> bytes]]
    /\ locale_encoding \in LocalePool
    /\ disk_dirs = {}
    /\ disk_unreadable = {}
    /\ scan_order = "fwd"
    /\ gitignore_spec = None
    /\ pc = "read_file"
    /\ NoArguments /\ NoGitignore /\ NothingLoaded /\ NoResults
    /\ NoOutputs
    /\ FreshProcess

CallReadFileContent ==
    /\ pc = "read_file"
    /\ \E read \in {ReadFileContent(working_path)} :
          /\ content' = read.value
          /\ error' = read.exc
    /\ pc' = "returned"
    /\ UNCHANGED <<base_dir, markdown, cli_vars, alias_vars, out_vars, gitignore_file, load_vars, disk,
                   gitignore_spec, files, tree, sorted_files, calls>>

SpecRead == InitRead /\ [][CallReadFileContent]_vars

\* ------------------------------------ the walk over unlistable directories
\* the matchers of this walk: None, or a PathSpec of at most one line
SmallMatcherPool == {None} \cup {Some(FromLines(l)) : l \in SeqsUpTo(PatternPool, 1)}

\* the walk of InitWalk, on a tree some of whose directories deny their listing
InitDenied ==
    /\ \E t \in TreePool(FilePoolIgnore) :
          /\ disk_files = t
          /\ disk_dirs = DirsOf(t)
    /\ disk_unreadable \in SUBSET disk_dirs
    /\ disk_content = DefaultContent(disk_files)
    /\ locale_encoding = "utf-8"
    /\ scan_order \in {"fwd", "rev"}
    /\ gitignore_spec \in SmallMatcherPool
    /\ working_path = ScanRoot
    /\ base_dir = ScanRoot
    /\ pc = "scan"
    /\ NoArguments /\ NoGitignore /\ NothingLoaded /\ NoResults
    /\ NoOutputs
    /\ FreshProcess

SpecDenied == InitDenied /\ [][Walk]_vars

\* ---------------------------------------------------- should_ignore alone
\* paths and base directories: inside, outside, below a sibling of the base
PathArgPool ==
    {Under(<<N_log>>), Under(<<N_src, N_log>>), Under(<<N_git, N_config>>),
     <<N_other, N_log>>, <<N_other, N_git, N_log>>, <<N_build>>, <<N_src, N_log>>}

BaseArgPool == {ScanRoot, Under(<<N_src>>)}

\* should_ignore called on any path with any base directory, as the tests call it
InitIgnore ==
    /\ gitignore_spec \in MatcherPool
    /\ working_path = ScanRoot
    /\ base_dir = ScanRoot
    /\ disk_files = {}
    /\ disk_dirs = {}
    /\ disk_unreadable = {}
    /\ disk_content = DefaultContent({})
    /\ locale_encoding = "utf-8"
    /\ scan_order = "fwd"
    /\ pc = "should_ignore"
    /\ NoArguments /\ NoGitignore /\ NothingLoaded /\ NoResults
    /\ NoOutputs
    /\ FreshProcess

CallShouldIgnore ==
    /\ pc = "should_ignore"
    /\ \E path \in PathArgPool, base \in BaseArgPool :
          calls' = calls \cup {Call("caller", path, base, gitignore_spec)}
    /\ pc' = "returned"
    /\ UNCHANGED <<run_vars, cli_vars, alias_vars, out_vars, gitignore_file, load_vars, disk, gitignore_spec,
                   files, tree, sorted_files>>

SpecIgnore == InitIgnore /\ [][CallShouldIgnore]_vars

\* ----------------------------------------- generate_markdown_output alone
\* candidate files: equal names in two directories, a name with a backslash,
\* and two names in one directory that differ in case only
FilePoolRender ==
    {Under(<<N_src, N_out>>), Under(<<N_build, N_out>>), Under(<<N_a, N_y>>),
     Under(<<N_a_backslash_y>>), Under(<<N_X>>), Under(<<N_x>>)}

\* a file that is not below the scan root
OutsideFile == <<N_other, N_out>>

\* generate_markdown_output called with a list of files, as the tests call it:
\* files of the directory in any order, and possibly a file from elsewhere
InitRender ==
    /\ \E t \in TreePool(FilePoolRender) :
          /\ disk_files = t
          /\ disk_dirs = DirsOf(t)
    /\ files \in SeqsUpTo(disk_files \cup {OutsideFile}, MaxFiles)
    /\ disk_unreadable = {}
    /\ disk_content = DefaultContent(disk_files)
    /\ locale_encoding = "utf-8"
    /\ scan_order \in {"fwd", "rev"}
    /\ gitignore_spec = None
    /\ working_path = ScanRoot
    /\ base_dir = ScanRoot
    /\ pc = "render"
    /\ tree = <<>>
    /\ sorted_files = <<>>
    /\ calls = {}
    /\ markdown = <<>>
    /\ content = None
    /\ error = ""
    /\ NoArguments /\ NoGitignore /\ NothingLoaded
    /\ NoOutputs
    /\ FreshProcess

SpecRender == InitRender /\ [][CallGenerateMarkdownOutput]_vars

\* ------------------------------------- generate_markdown_output: file kinds
\* candidate files: Markdown under three spellings of the extension, a source
\* file, a text file
FilePoolTypes ==
    {Under(<<N_readme_md>>), Under(<<N_NOTES_MD>>), Under(<<N_guide_markdown>>),
     Under(<<N_main_py>>), Under(<<N_out>>)}

\* what a file of this pool holds: its own name, a byte no encoding of the
\* locale decodes, or anything behind permissions that deny reading
ContentPool(f) ==
    {[mode |-> "readable", bytes |-> RelativeStr(f, ScanRoot)],
     [mode |-> "readable", bytes |-> <<"ff">>],
     [mode |-> "denied", bytes |-> <<>>]}

\* generate_markdown_output called with the files of a flat directory
InitTypes ==
    /\ disk_files \in TreePool(FilePoolTypes)
    /\ disk_dirs = {}
    /\ files \in SeqsUpTo(disk_files, MaxFiles)
    /\ disk_unreadable = {}
    /\ disk_content \in [disk_files -> UNION {ContentPool(f) : f \in disk_files}]
    /\ \A f \in disk_files : disk_content[f] \in ContentPool(f)
    /\ locale_encoding = "utf-8"
    /\ scan_order = "fwd"
    /\ gitignore_spec = None
    /\ working_path = ScanRoot
    /\ base_dir = ScanRoot
    /\ pc = "render"
    /\ tree = <<>>
    /\ sorted_files = <<>>
    /\ calls = {}
    /\ markdown = <<>>
    /\ content = None
    /\ error = ""
    /\ NoArguments /\ NoGitignore /\ NothingLoaded
    /\ NoOutputs
    /\ FreshProcess

SpecTypes == InitTypes /\ [][CallGenerateMarkdownOutput]_vars

\* ------------------------------------------- the walk over empty directories
\* candidate files and candidate directories that hold nothing
FilePoolTree ==
    {Under(<<N_src, N_out>>), Under(<<N_src, N_log>>), Under(<<N_log>>),
     Under(<<N_build, N_out>>)}

EmptyDirPool == {Under(<<N_empty>>), Under(<<N_src, N_empty>>)}

\* the walk of InitWalk, on a tree that may hold empty directories
InitTree ==
    /\ disk_files \in TreePool(FilePoolTree)
    /\ \E extra \in SUBSET EmptyDirPool :
          disk_dirs = DirsOf(disk_files) \cup extra \cup DirsOf(extra)
    /\ disk_unreadable = {}
    /\ disk_content = DefaultContent(disk_files)
    /\ locale_encoding = "utf-8"
    /\ scan_order \in {"fwd", "rev"}
    /\ gitignore_spec \in SmallMatcherPool
    /\ working_path = ScanRoot
    /\ base_dir = ScanRoot
    /\ pc = "scan"
    /\ NoArguments /\ NoGitignore /\ NothingLoaded /\ NoResults
    /\ NoOutputs
    /\ FreshProcess

SpecTree == InitTree /\ [][Walk]_vars

\* ------------------------------------------- config.parse_output_config
\* @dataclass OutputConfig: type: str, path: Optional[str] = None
OutputConfig(type, opt_path) == [type |-> type, path |-> opt_path]

RECURSIVE Find(_, _, _)
\* str.find(sub, start) for a one-character sub: the first index from start on,
\* 0 when there is none
Find(str, sub, start) ==
    IF start > Len(str) THEN 0
    ELSE IF str[start] = sub THEN start
    ELSE Find(str, sub, start + 1)

RECURSIVE RFind(_, _, _)
\* str.rfind(sub) for a one-character sub, searching down from index end
RFind(str, sub, end) ==
    IF end < 1 THEN 0
    ELSE IF str[end] = sub THEN end
    ELSE RFind(str, sub, end - 1)

\* str.split(sep, 1) of a string that holds sep
SplitOnce(str, sep) ==
    LET k == Find(str, sep, 1)
    IN <<SubSeq(str, 1, k - 1), SubSeq(str, k + 1, Len(str))>>

\* str.rsplit(sep, 1) of a string that holds sep
RSplitOnce(str, sep) ==
    LET k == RFind(str, sep, Len(str))
    IN <<SubSeq(str, 1, k - 1), SubSeq(str, k + 1, Len(str))>>

\* parse_output_config splitting at the last "="
ParseOutputConfigLastSplit(output_str) ==
    IF "=" \in Range(output_str)
    THEN LET parts == RSplitOnce(output_str, "=")
         IN OutputConfig(Strip(parts[1]), Some(Strip(parts[2])))
    ELSE OutputConfig(Strip(output_str), None)

\* parse_output_config
ParseOutputConfig(output_str) ==
    IF "=" \in Range(output_str)
    THEN LET parts == SplitOnce(output_str, "=")
         IN OutputConfig(Strip(parts[1]), Some(Strip(parts[2])))
    ELSE OutputConfig(Strip(output_str), None)

\* main: output_configs = [parse_output_config(out) for out in output]
Main_ParseOutputs ==
    /\ pc = "parse"
    /\ output_configs' = [i \in 1..Len(output) |-> ParseOutputConfig(output[i])]
    /\ pc' = "handlers"
    /\ UNCHANGED <<run_vars, cli_vars, alias_vars, out_args, handlers, closure_path, handler_index,
                   writes, exit_code, stdout, gitignore_file, load_vars, disk,
                   gitignore_spec, files, tree, sorted_files, calls>>

\* the characters of the --output values tried
CharPool == {"file", "=", " ", "a.md"}

MaxChars == 4

RECURSIVE StringsUpTo(_, _)
\* the strings of at most n characters of a pool
StringsUpTo(pool, n) ==
    IF n = 0 THEN {<<>>}
    ELSE LET shorter == StringsUpTo(pool, n - 1)
         IN shorter \cup {Append(str, c) : str \in shorter, c \in pool}

\* main called with one --output value on an empty directory
InitParse ==
    /\ output \in {<<str>> : str \in StringsUpTo(CharPool, MaxChars)}
    /\ pc = "parse"
    /\ working_path = ScanRoot
    /\ base_dir = <<>>
    /\ disk_files = {}
    /\ disk_dirs = {}
    /\ disk_unreadable = {}
    /\ disk_content = DefaultContent(disk_files)
    /\ locale_encoding = "utf-8"
    /\ scan_order = "fwd"
    /\ gitignore_spec = None
    /\ disk_unwritable = {}
    /\ output_configs = <<>>
    /\ handlers = <<>>
    /\ closure_path = None
    /\ handler_index = 0
    /\ writes = <<>>
    /\ exit_code = None
    /\ stdout = <<>>
    /\ NoArguments /\ NoGitignore /\ NothingLoaded /\ NoResults
    /\ FreshProcess

SpecParse == InitParse /\ [][Main_ParseOutputs]_vars

\* ------------------------------------------------------------- handlers
T_console == <<"console">>
T_file == <<"file">>

\* what get_output_handlers raises for one config, "" when it raises nothing
ConfigError(config) ==
    IF config.type = T_console THEN ""
    ELSE IF config.type = T_file
         THEN IF config.path = None \/ config.path = Some(<<>>)     \* not config.path
              THEN "BadParameter" ELSE ""
    ELSE "BadParameter"

\* a handler: the lambda appended for a config of this type.  The lambda of a
\* file config holds no path of its own; it reads the variable path of the
\* enclosing call when it is called.
Handler(type) == [type |-> type]

RECURSIVE LastFilePath(_, _)
\* the value get_output_handlers' local path holds after the loop over the
\* first n configs: the path of the last file config, None when there is none
LastFilePath(configs, n) ==
    IF n = 0 THEN None
    ELSE IF configs[n].type = T_file THEN configs[n].path
    ELSE LastFilePath(configs, n - 1)

\* get_output_handlers passing over the configs it cannot serve
GetOutputHandlersSkipInvalid(configs) ==
    LET valid == SelectSeq(configs, LAMBDA c : ConfigError(c) = "")
    IN [exc |-> "",
        handlers |-> [i \in 1..Len(valid) |-> Handler(valid[i].type)],
        path |-> LastFilePath(valid, Len(valid))]

\* get_output_handlers: the exception it raises, or the list it returns and
\* the value its local path is left with
GetOutputHandlers(configs) ==
    IF \E i \in 1..Len(configs) : ConfigError(configs[i]) # ""
    THEN [exc |-> "BadParameter", handlers |-> <<>>, path |-> None]
    ELSE [exc |-> "",
          handlers |-> [i \in 1..Len(configs) |-> Handler(configs[i].type)],
          path |-> LastFilePath(configs, Len(configs))]

\* console_output: what it prints
ConsoleOutput(text) ==
    [exc |-> "", printed |-> <<[kind |-> "markdown", text |-> text]>>, written |-> <<>>]

\* file_output letting the error of write_text through
FileOutputUncaught(text, path) ==
    IF path \in disk_unwritable
    THEN [exc |-> "OSError", printed |-> <<>>, written |-> <<>>]
    ELSE [exc |-> "",
          printed |-> <<[kind |-> "written", text |-> path]>>,
          written |-> <<[path |-> path, text |-> text]>>]

\* file_output: what it prints and what it writes
FileOutput(text, path) ==
    IF path \in disk_unwritable
    THEN [exc |-> "", printed |-> <<[kind |-> "write_error", text |-> path]>>,
          written |-> <<>>]
    ELSE [exc |-> "",
          printed |-> <<[kind |-> "written", text |-> path]>>,
          written |-> <<[path |-> path, text |-> text]>>]

\* Path.exists()
Exists(path) == IsFile(path) \/ IsDir(path)

\* typer's check of the path argument (exists=True) without the check
Typer_ValidatePathUnchecked ==
    /\ pc = "typer"
    /\ pc' = "parse"
    /\ UNCHANGED <<run_vars, cli_vars, alias_vars, out_vars, gitignore_file, load_vars, disk,
                   gitignore_spec, files, tree, sorted_files, calls>>

\* typer's check of the path argument (exists=True), made before main is
\* called: a path that does not exist ends the command with a usage error
Typer_ValidatePath ==
    /\ pc = "typer"
    /\ IF Exists(working_path)
       THEN pc' = "parse" /\ exit_code' = exit_code
       ELSE pc' = "exit" /\ exit_code' = Some(2)
    /\ UNCHANGED <<run_vars, cli_vars, alias_vars, out_args, output_configs, handlers, closure_path,
                   handler_index, writes, stdout, gitignore_file, load_vars, disk,
                   gitignore_spec, files, tree, sorted_files, calls>>

\* main: handlers = get_output_handlers(output_configs); BadParameter ends the
\* command with a usage error
Main_GetOutputHandlers ==
    /\ pc = "handlers"
    /\ \E got \in {GetOutputHandlers(output_configs)} :
          IF got.exc # ""
          THEN /\ pc' = "exit"
               /\ exit_code' = Some(2)
               /\ UNCHANGED <<handlers, closure_path>>
          ELSE /\ pc' = "main"
               /\ handlers' = got.handlers
               /\ closure_path' = got.path
               /\ exit_code' = exit_code
    /\ UNCHANGED <<run_vars, cli_vars, alias_vars, out_args, output_configs, handler_index, writes,
                   stdout, gitignore_file, load_vars, disk, gitignore_spec, files, tree,
                   sorted_files, calls>>

\* main: one turn of "for handler in handlers: handler(markdown_content)"
Main_CallHandler ==
    /\ pc = "output"
    /\ error = ""
    /\ handler_index < Len(handlers)
    /\ \E did \in {IF handlers[handler_index + 1].type = T_console
                    THEN ConsoleOutput(markdown)
                    ELSE FileOutput(markdown, closure_path[1])} :
          /\ stdout' = stdout \o did.printed
          /\ writes' = writes \o did.written
          /\ error' = did.exc
    /\ handler_index' = handler_index + 1
    /\ UNCHANGED <<base_dir, markdown, content, cli_vars, alias_vars, out_args, output_configs,
                   handlers, closure_path, exit_code, pc, gitignore_file, load_vars, disk,
                   gitignore_spec, files, tree, sorted_files, calls>>

\* main returns after the last handler, or an exception leaves it
Main_Return ==
    /\ pc = "output"
    /\ error # "" \/ handler_index = Len(handlers)
    /\ exit_code' = IF error = "" THEN Some(0) ELSE Some(1)
    /\ pc' = "exit"
    /\ UNCHANGED <<run_vars, cli_vars, alias_vars, out_args, output_configs, handlers, closure_path,
                   handler_index, writes, stdout, gitignore_file, load_vars, disk,
                   gitignore_spec, files, tree, sorted_files, calls>>

\* --------------------------------------------------- the command, whole
\* the --output values tried
Out_console == <<"console">>
Out_file_out == <<"file", "=", "out.md">>
Out_file_b == <<" ", "file", " ", "=", " ", "b.md", " ">>
Out_file == <<"file">>
Out_file_empty == <<"file", "=">>
Out_bogus == <<"bogus">>

OutputPool == {Out_console, Out_file_out, Out_file_b, Out_file, Out_file_empty, Out_bogus}

MaxOutputs == 3

\* the output files that may refuse to be written
OutputPathPool == {<<"out.md">>, <<"b.md">>}

\* a path argument that names nothing on disk
MissingPath == <<<<"missing">>>>

\* the paths main is run on
PathPool == {ScanRoot, Under(<<N_log>>), MissingPath}

\* the command line parsed: a path, --output values, no pattern options, on a
\* directory of two files, with or without a .gitignore
InitOutput ==
    /\ working_path \in PathPool
    /\ output \in SeqsUpTo(OutputPool, MaxOutputs)
    /\ output # <<>>
    /\ disk_unwritable \in SUBSET OutputPathPool
    /\ \/ /\ disk_files = {Under(<<N_src, N_out>>), Under(<<N_log>>)}
          /\ gitignore_lines = <<>>
          /\ gitignore_error_at = 0
       \/ /\ disk_files = {Under(<<N_src, N_out>>), Under(<<N_log>>), Under(<<N_gitignore>>)}
          /\ gitignore_lines = <<Line_logs>>
          /\ gitignore_error_at \in {0, 1}
    /\ disk_dirs = DirsOf(disk_files)
    /\ disk_unreadable = {}
    /\ disk_content = DefaultContent(disk_files)
    /\ locale_encoding = "utf-8"
    /\ scan_order = "fwd"
    /\ gitignore_spec = None
    /\ base_dir = <<>>
    /\ pc = "typer"
    /\ output_configs = <<>>
    /\ handlers = <<>>
    /\ closure_path = None
    /\ handler_index = 0
    /\ writes = <<>>
    /\ exit_code = None
    /\ stdout = <<>>
    /\ NoArguments /\ NothingLoaded /\ NoResults
    /\ FreshProcess

NextOutput ==
    \/ Typer_ValidatePath
    \/ Main_ParseOutputs
    \/ Main_GetOutputHandlers
    \/ Main_SelectPatterns
    \/ Main_FileMode
    \/ LoadGitignore
    \/ Walk
    \/ Main_CallHandler
    \/ Main_Return

SpecOutput == InitOutput /\ [][NextOutput]_vars

\* ================================================================ claims
TreePaths == {tree[i].path : i \in 1..Len(tree)}

HasGitComponent(path, base) ==
    IsRelativeTo(path, base) /\ GitDir \in Range(RelativeParts(path, base))

\* C1: when the walk is over, no file or directory below a directory that
\* should_ignore excludes (relative to the scan root) is in the file list or
\* in the tree.
C1_ExcludedDirectoryIsCut ==
    pc = "output" =>
        \A d \in disk_dirs :
            ShouldIgnore(d, ScanRoot, gitignore_spec) =>
                \A e \in disk_files \cup disk_dirs :
                    (IsPrefix(d, e) /\ e # d) =>
                        e \notin Range(files) /\ e \notin TreePaths

\* C2: every should_ignore call on a path with a .git component (relative to
\* the call's base_dir) returned true, whatever the matcher, and no entry
\* with a .git component is in the file list or in the tree.
C2_GitAlwaysIgnored ==
    /\ \A c \in calls : HasGitComponent(c.path, c.base_dir) => c.result
    /\ \A e \in Range(files) \cup TreePaths : ~HasGitComponent(e, ScanRoot)

\* C2 witness: with the matcher "!.git", a file two levels down in a .git
\* directory was classified and the walk left it out.
C2_Witness ==
    /\ pc = "output"
    /\ gitignore_spec = Some(<<Pat_git_neg>>)
    /\ Under(<<N_src, N_out>>) \in Range(files)
    /\ \E c \in calls : c.path = Under(<<N_src, N_git, N_config>>) /\ c.result

\* C3: whenever a call consulted the matcher, the string it handed over is
\* the path relative to the scan root, joined by "/".
C3_MatcherInputIsRootRelative ==
    \A c \in calls :
        c.arg # None => c.arg = Some(JoinParts(RelativeParts(c.path, ScanRoot)))

\* the patterns of a matcher that match a "/"-joined relative path
MatchingPatterns(spec, file) ==
    {i \in 1..Len(spec) :
        ~PatternIsNull(spec[i]) /\ PatternMatches(spec[i], SplitSlash(file))}

Max(S) == CHOOSE m \in S : \A n \in S : n <= m

\* C4: the verdict of every call that consulted the matcher is the one of the
\* last pattern of the list that matches the path: excluded when that pattern
\* is no negation, included when it is one or when no pattern matches.
C4_LastMatchingPatternDecides ==
    \A c \in calls :
        c.arg # None =>
            LET m == MatchingPatterns(gitignore_spec[1], c.arg[1])
            IN c.result = (m # {} /\ PatternInclude(gitignore_spec[1][Max(m)]))

\* C4 witness: build/ followed by !build/keep.txt re-included keep.txt and
\* nothing else of build.
C4_Witness ==
    /\ pc = "output"
    /\ gitignore_spec = Some(<<Pat_build_dir, Pat_keep_neg>>)
    /\ Under(<<N_build, N_keep>>) \in Range(files)
    /\ Under(<<N_build, N_out>>) \in disk_files \ Range(files)

\* C10: the files that are both in the sorted list and in the tree come in
\* the same order in both.
C10_SortOrderIsTreeOrder ==
    pc = "output" =>
        SelectSeq(sorted_files, LAMBDA f : f \in TreePaths)
            = SelectSeq([i \in 1..Len(tree) |-> tree[i].path],
                        LAMBDA f : f \in Range(sorted_files))

\* ---- claims about a run of main
RECURSIVE IsSubsequence(_, _)
\* the elements of a occur in b, in a's order
IsSubsequence(a, b) ==
    IF a = <<>> THEN TRUE
    ELSE IF b = <<>> THEN FALSE
    ELSE IF Head(a) = Head(b) THEN IsSubsequence(Tail(a), Tail(b))
    ELSE IsSubsequence(a, Tail(b))

\* load_gitignore has returned
Loaded == pc \in {"scan", "render", "output"}

\* get_files_recursively has returned
Scanned == pc \in {"render", "output"}

\* the pattern lines compiled into the matcher
Compiled == gitignore_spec[1]

\* the lines of .gitignore, stripped
StrippedLines == [i \in 1..Len(gitignore_lines) |-> Strip(gitignore_lines[i])]

\* the stripped lines that are neither empty nor comments
PatternLines == SelectSeq(StrippedLines, LAMBDA l : l # <<>> /\ ~StartsWith(l, "#"))

\* the verdict the last matching pattern of a list gives on a file of the scan root
ExcludedBy(lines, path) ==
    LET m == MatchingPatterns(lines, JoinParts(RelativeParts(path, ScanRoot)))
    IN m # {} /\ PatternInclude(lines[Max(m)])

\* what follows the first n entries of the compiled list comes from .gitignore:
\* stripped lines of the file in file order, all of its pattern lines when the
\* read did not fail
GitignoreTail(n) ==
    LET g == Drop(Compiled, n)
    IN /\ IsSubsequence(g, StrippedLines)
       /\ ~read_failed => IsSubsequence(PatternLines, g)

\* C5: without --ignore, the compiled list is the defaults, then the extra
\* patterns, then lines of .gitignore in file order; so for a file that a
\* .gitignore line matches, the last such line decides, whatever the defaults
\* and the extra patterns say.
C5_DefaultsExtrasGitignore ==
    (Loaded /\ ignore_patterns = None) =>
        LET extras == IF extra_ignore = None THEN <<>> ELSE extra_ignore[1]
            head == DEFAULT_IGNORE_PATTERNS \o extras
        IN /\ IsPrefix(head, Compiled)
           /\ GitignoreTail(Len(head))
           /\ Scanned =>
                  \A e \in disk_files :
                      LET g == Drop(Compiled, Len(head))
                          m == MatchingPatterns(g, JoinParts(RelativeParts(e, ScanRoot)))
                      IN (~HasGitComponent(e, ScanRoot) /\ m # {}) =>
                             (e \in Range(files) <=> ~PatternInclude(g[Max(m)]))

\* C5 witness: the default "build" and the extra "*.txt" both exclude
\* build/out.txt, the .gitignore line "!build" re-included it, and "*.txt"
\* still excluded src/out.txt.
C5_Witness ==
    /\ pc = "output"
    /\ ignore_patterns = None
    /\ extra_ignore = Some(<<Pat_txt>>)
    /\ Line_neg_build \in Range(gitignore_lines)
    /\ Under(<<N_build, N_out>>) \in Range(files)
    /\ Under(<<N_src, N_out>>) \notin Range(files)

\* C6: with --ignore and --extra-ignore, the compiled list is the replacement
\* list, then the extra patterns, then lines of .gitignore.
C6_ReplacementThenExtras ==
    (Loaded /\ ignore_patterns # None /\ extra_ignore # None /\ extra_ignore[1] # <<>>) =>
        LET head == ignore_patterns[1] \o extra_ignore[1]
        IN IsPrefix(head, Compiled) /\ GitignoreTail(Len(head))

\* C7: with an empty --ignore list, the compiled list holds lines of
\* .gitignore only (all of its pattern lines), and the files listed are the
\* ones outside .git that the last matching .gitignore line does not exclude.
C7_EmptyReplacementKeepsGitignore ==
    (Loaded /\ ignore_patterns = Some(<<>>)) =>
        /\ GitignoreTail(0)
        /\ Scanned =>
               \A e \in disk_files :
                   e \in Range(files) <=>
                       /\ ~HasGitComponent(e, ScanRoot)
                       /\ read_failed \/ ~ExcludedBy(PatternLines, e)

\* C7 witness: no default applied (build/out.txt and .gitignore are listed),
\* the .gitignore line "*.log" did (debug.log is not), nor is .git/config.
C7_Witness ==
    /\ pc = "output"
    /\ ignore_patterns = Some(<<>>)
    /\ ~read_failed
    /\ Line_logs \in Range(gitignore_lines)
    /\ {Under(<<N_build, N_out>>), GitignorePath} \subseteq Range(files)
    /\ Under(<<N_log>>) \notin Range(files)
    /\ Under(<<N_git, N_config>>) \notin Range(files)

\* C8: when .gitignore was read to its end, what load_gitignore added to the
\* caller's patterns is exactly the stripped lines that are not empty and do
\* not begin with "#".
C8_ContributedLines ==
    (Loaded /\ IsFile(GitignorePath) /\ ~read_failed) =>
        /\ IsPrefix(patterns_to_use, Compiled)
        /\ Drop(Compiled, Len(patterns_to_use)) = PatternLines

\* C9: once reading .gitignore has failed, load_gitignore goes on to return,
\* its pattern list is the caller's, and the matcher it returns is built from
\* exactly the caller's patterns.
C9_ReadErrorContributesNothing ==
    read_failed =>
        /\ pc \in {"compile", "scan", "render", "output"}
        /\ patterns = patterns_to_use
        /\ Loaded => gitignore_spec = Some(FromLines(patterns_to_use))

\* C9 witness: the read failed after a line that the filter keeps was read,
\* and load_gitignore returned.
C9_Witness ==
    /\ Loaded
    /\ read_failed
    /\ read_pos >= 1
    /\ gitignore_patterns # <<>>

\* every order in which a list can be handed to sort_files
Orderings(file_list) ==
    {[i \in 1..Len(file_list) |-> file_list[f[i]]] : f \in Permutations(1..Len(file_list))}

\* C11: two distinct files below the scan root never get equal sort keys, and
\* sort_files gives the same list for every order of its input.
C11_SortKeyIsInjective ==
    (pc = "output" /\ ~SortFilesRaises(files, base_dir)) =>
        /\ \A f, g \in Range(files) :
               f # g => GetPathSortKey(f, base_dir) # GetPathSortKey(g, base_dir)
        /\ \A o \in Orderings(files) : SortFiles(o, base_dir) = sorted_files

\* the file read_file_content was called on cannot be read: it is missing, its
\* permissions deny it, or neither UTF-8 nor the locale's encoding decodes it
CannotBeRead(path) ==
    \/ path \notin disk_files
    \/ disk_content[path].mode = "denied"
    \/ /\ Decode(disk_content[path].bytes, "utf-8") = None
       /\ Decode(disk_content[path].bytes, locale_encoding) = None

\* C12: read_file_content raises nothing for any state of the file, and it
\* returns None exactly when the file cannot be read.
C12_ReadNeverRaises ==
    pc = "returned" =>
        /\ error = ""
        /\ content = None <=> CannotBeRead(working_path)

\* C13: a readable file whose bytes are UTF-8 is returned as exactly the text
\* these bytes encode, and an empty file as the empty string.
C13_Utf8RoundTrip ==
    (/\ pc = "returned"
     /\ working_path \in disk_files
     /\ disk_content[working_path].mode = "readable"
     /\ Decode(disk_content[working_path].bytes, "utf-8") # None) =>
        /\ error = ""
        /\ content = Some(Decode(disk_content[working_path].bytes, "utf-8")[1])

\* path lies below directory d
Below(path, d) == IsPrefix(d, path) /\ path # d

\* the proper ancestors of path below the scan root, and path itself
ChainOf(path) == {SubSeq(path, 1, k) : k \in (Len(ScanRoot) + 1)..Len(path)}

\* C14: with directories below the scan root that cannot be listed, the walk
\* ends without an exception, nothing below such a directory is in the file
\* list or in the tree, and every file outside them is enumerated and rendered
\* as the ignore rules say.
C14_UnlistableDirectoryIsSkipped ==
    pc = "output" =>
        /\ error = ""
        /\ \A d \in disk_unreadable :
               \A e \in Range(files) \cup TreePaths : ~Below(e, d)
        /\ \A f \in disk_files :
               (\A d \in disk_unreadable : ~Below(f, d)) =>
                   /\ ~ShouldIgnore(f, ScanRoot, gitignore_spec) => f \in Range(files)
                   /\ (\A q \in ChainOf(f) : ~ShouldIgnore(q, Parent(q), gitignore_spec))
                          => f \in TreePaths

\* C15: a should_ignore call on a path that is not inside its base directory
\* returns false and consults no matcher, whatever the matcher holds.
C15_OutsidePathIsNeverIgnored ==
    \A c \in calls :
        ~IsRelativeTo(c.path, c.base_dir) => (~c.result /\ c.arg = None)

\* a path outside the base directory with a .git component was classified
\* under a matcher whose patterns match the path as given
C15_Witness ==
    \E c \in calls :
        /\ ~IsRelativeTo(c.path, c.base_dir)
        /\ GitDir \in Range(c.path)
        /\ gitignore_spec # None
        /\ MatchFile(gitignore_spec[1], JoinParts(c.path))
        /\ ~c.result

\* the "### File:" headers of the output, in order
Headers == SelectSeq(markdown, LAMBDA b : b.kind = "file_header")

\* the blocks of the output that follow a header with this text
BlocksAfterHeader(text) ==
    {markdown[i + 1] : i \in {j \in 1..(Len(markdown) - 1) :
                                 markdown[j] = Block("file_header", text)}}

\* C16: given a file that is not below base_dir, generate_markdown_output ends
\* without an exception, the file has a header with its path as given, and
\* every other file of the list is rendered.
C16_ForeignFileFallsBack ==
    (pc = "output" /\ SortFilesRaises(files, base_dir)) =>
        /\ error = ""
        /\ \A f \in Range(files) :
               IF IsRelativeTo(f, base_dir)
               THEN \E i \in 1..Len(Headers) : Headers[i].text = RelativeStr(f, base_dir)
               ELSE BlocksAfterHeader(AbsoluteStr(f)) # {}

\* C20: for a list of files below base_dir the output has one header per
\* file, each the file's path below base_dir joined by "/", distinct files
\* have distinct headers, and each header is followed by its file's content.
C20_OneDistinctHeaderPerFile ==
    (pc = "output" /\ ~SortFilesRaises(files, base_dir)) =>
        /\ error = ""
        /\ Len(Headers) = Len(files)
        /\ \A i \in 1..Len(Headers) :
               Headers[i].text = RelativeStr(sorted_files[i], base_dir)
        /\ \A i, j \in 1..Len(Headers) :
               sorted_files[i] # sorted_files[j] => Headers[i].text # Headers[j].text
        /\ \A f \in Range(files) :
               BlocksAfterHeader(RelativeStr(f, base_dir))
                   = {Block("code", ReadFileContent(f).value[1])}

\* C17: a run of main on a file has, from the first step on, the file list
\* [the file] and the file's parent as scan root, and its output is the
\* file's header and content with no directory-tree section.
C17_FileModeListsTheFileOnly ==
    (IsFile(working_path) /\ pc # "main") =>
        /\ files = <<working_path>>
        /\ base_dir = Parent(working_path)
        /\ pc = "output" =>
              /\ error = ""
              /\ tree = <<>>
              /\ \A i \in 1..Len(markdown) :
                     /\ markdown[i].kind # "tree"
                     /\ markdown[i] # Block("h2", <<"Directory Structure">>)
              /\ sorted_files = <<working_path>>
              /\ Len(Headers) = 1
              /\ Headers[1].text = Name(working_path)

\* the output of a run on a file that --ignore and the compiled patterns
\* both exclude
C17_Witness ==
    /\ pc = "output"
    /\ IsFile(working_path)
    /\ ignore_patterns # None
    /\ MatchFile(FromLines(ignore_patterns[1]), Name(working_path))
    /\ ShouldIgnore(working_path, base_dir, gitignore_spec)
    /\ Len(Headers) = 1

\* the connector of a tree row: the glyph in front of the entry's name
ConnectorOf(row) == row.text[Len(row.path) - Len(ScanRoot)]

\* rows i and j of the tree are entries of one directory
Siblings(i, j) == Parent(tree[i].path) = Parent(tree[j].path)

\* C18: in the rendered tree, a row has the last-entry connector when no later
\* row is an entry of the same directory, and the other connector otherwise.
C18_LastRenderedEntryHasLastConnector ==
    pc = "output" =>
        \A i \in 1..Len(tree) :
            ConnectorOf(tree[i]) =
                IF \E j \in (i + 1)..Len(tree) : Siblings(i, j)
                THEN MidConnector
                ELSE LastConnector

\* C19: in the rendered tree, of two entries of one directory a subdirectory
\* is never below a file, and within the subdirectories and within the files
\* the lower-cased names never descend.
C19_DirectoriesFirstThenByName ==
    pc = "output" =>
        \A i, j \in 1..Len(tree) :
            (i < j /\ Siblings(i, j)) =>
                /\ ~(IsFile(tree[i].path) /\ ~IsFile(tree[j].path))
                /\ IsFile(tree[i].path) = IsFile(tree[j].path) =>
                       ~StrLess(Lower(Name(tree[j].path)), Lower(Name(tree[i].path)))

\* the operating system lists entry p before entry q of the same directory
ListedBefore(p, q) ==
    LET listing == IterDir(Parent(p))
    IN \E m, n \in 1..Len(listing) : m < n /\ listing[m] = p /\ listing[n] = q

\* the rendered tree shows a subdirectory above a file and a file above a
\* file, each pair of one directory, and the operating system lists both
\* pairs the other way round
C19_Witness ==
    /\ pc = "output"
    /\ \E i, j \in 1..Len(tree) :
          /\ i < j /\ Siblings(i, j)
          /\ IsDir(tree[i].path) /\ IsFile(tree[j].path)
          /\ ListedBefore(tree[j].path, tree[i].path)
    /\ \E i, j \in 1..Len(tree) :
          /\ i < j /\ Siblings(i, j)
          /\ IsFile(tree[i].path) /\ IsFile(tree[j].path)
          /\ ListedBefore(tree[j].path, tree[i].path)

\* the extensions of Markdown files
MarkdownSuffixes == {".md", ".markdown"}

\* C21: when generate_markdown_output returns, every file of the list stands
\* after its header as its content inline when read_file_content gave a string
\* and the lower-cased extension is .md or .markdown, as a fenced block tagged
\* with its language when it gave a string otherwise, and as the placeholder
\* when it gave None.
C21_BlockKindFollowsFile ==
    (pc = "output" /\ error = "") =>
        \A f \in Range(files) :
            BlocksAfterHeader(RelativeStr(f, base_dir)) =
                IF ReadFileContent(f).value = None THEN {Block("unreadable", <<>>)}
                ELSE IF Suffix(f) \in MarkdownSuffixes
                     THEN {Block("raw", ReadFileContent(f).value[1])}
                ELSE {CodeBlock(GetFileLanguage(f), ReadFileContent(f).value[1])}

\* C26: in directory mode, a regular file of the scanned directory has a line
\* in the tree of generate_directory_tree if and only if it is in the list
\* get_files_recursively returned.
C26_TreeAndFileListAgree ==
    (pc = "output" /\ error = "") =>
        \A f \in disk_files : (f \in TreePaths) <=> (f \in Range(files))

\* the entries generate_directory_tree reaches and keeps: neither the entry nor
\* a directory above it is excluded when it is classified in the directory that
\* lists it
Rendered(spec) ==
    {p \in disk_files \cup disk_dirs :
        \A k \in (Len(base_dir) + 1)..Len(p) :
            ~ShouldIgnore(SubSeq(p, 1, k), SubSeq(p, 1, k - 1), spec)}

\* C29: the tree has exactly one line per entry that is not excluded and lies
\* below directories that are not excluded, and no empty line: an empty root
\* gives no line, and a directory with nothing to show below it has its own
\* line and no line below it.
C29_OneLinePerRenderedEntry ==
    (pc = "output" /\ error = "") =>
        /\ \A i \in 1..Len(tree) : tree[i].text # <<>>
        /\ TreePaths = Rendered(gitignore_spec)
        /\ Len(tree) = Cardinality(Rendered(gitignore_spec))
        /\ (disk_files \cup disk_dirs = {}) => tree = <<>>
        /\ \A d \in disk_dirs \cap Rendered(gitignore_spec) :
               (\A p \in Rendered(gitignore_spec) : p = d \/ ~IsPrefix(d, p))
                   => /\ d \in TreePaths
                      /\ \A p \in TreePaths : p = d \/ ~IsPrefix(d, p)

\* a tree with a line for an empty directory and a line for a directory whose
\* entries are all excluded
C29_Witness ==
    /\ pc = "output" /\ error = ""
    /\ \E d \in disk_dirs \cap TreePaths : IterDir(d) = <<>>
    /\ \E d \in disk_dirs \cap TreePaths :
          /\ IterDir(d) # <<>>
          /\ \A p \in TreePaths : p = d \/ ~IsPrefix(d, p)

\* the positions of "=" in a string
EqualsAt(str) == {k \in 1..Len(str) : str[k] = "="}

Min(S) == CHOOSE k \in S : \A j \in S : k <= j

\* C24: the config parsed from an --output value has, when the value holds an
\* "=", the trimmed text before the first "=" as its type and the trimmed text
\* after it as its path; otherwise the trimmed value as its type and no path.
C24_SplitsAtFirstEquals ==
    pc = "handlers" =>
        /\ Len(output_configs) = Len(output)
        /\ \A i \in 1..Len(output) :
               LET str == output[i]
                   config == output_configs[i]
               IN IF EqualsAt(str) = {}
                  THEN config.type = Strip(str) /\ config.path = None
                  ELSE LET k == Min(EqualsAt(str))
                       IN /\ config.type = Strip(SubSeq(str, 1, k - 1))
                          /\ config.path = Some(Strip(SubSeq(str, k + 1, Len(str))))

\* a value that starts with a blank and holds two "=" has been parsed, and the
\* path parsed from it holds the second "="
C24_Witness ==
    /\ pc = "handlers"
    /\ \E i \in 1..Len(output) :
          /\ Cardinality(EqualsAt(output[i])) >= 2
          /\ output[i][1] \in Whitespace
          /\ "=" \in Range(output_configs[i].path[1])

\* a config get_output_handlers can serve
ValidConfig(config) ==
    \/ config.type = T_console
    \/ config.type = T_file /\ config.path # None /\ config.path[1] # <<>>

\* C22: once get_output_handlers has been called on the parsed outputs, either
\* every config is valid and there is one handler per config, in the configs'
\* order, or the command has ended with a usage error, no handler exists,
\* nothing was scanned, printed or written.
C22_HandlersAllOrNothing ==
    (pc \notin {"typer", "parse", "handlers"} /\ Exists(working_path)) =>
        IF \A i \in 1..Len(output_configs) : ValidConfig(output_configs[i])
        THEN /\ Len(handlers) = Len(output_configs)
             /\ \A i \in 1..Len(handlers) : handlers[i].type = output_configs[i].type
             /\ exit_code # Some(2)
        ELSE /\ pc = "exit"
             /\ exit_code = Some(2)
             /\ handlers = <<>>
             /\ handler_index = 0
             /\ stdout = <<>>
             /\ writes = <<>>
             /\ files = <<>> /\ tree = <<>> /\ calls = {} /\ markdown = <<>>

\* the command has ended on an invalid output that follows a valid, writable
\* file output
C22_Witness ==
    /\ pc = "exit"
    /\ Exists(working_path)
    /\ Len(output_configs) >= 2
    /\ output_configs[1].type = T_file
    /\ ValidConfig(output_configs[1])
    /\ output_configs[1].path[1] \notin disk_unwritable
    /\ ~ValidConfig(output_configs[2])

\* C23: when the path argument names nothing on disk, the command ends at
\* typer's check with a non-zero exit code: nothing is scanned, no handler is
\* built or called, nothing is printed to standard output or written to a file.
C23_MissingRootAbortsBeforeOutput ==
    (~Exists(working_path) /\ pc # "typer") =>
        /\ pc = "exit"
        /\ exit_code \notin {None, Some(0)}
        /\ files = <<>> /\ tree = <<>> /\ calls = {} /\ markdown = <<>>
        /\ handlers = <<>>
        /\ handler_index = 0
        /\ stdout = <<>>
        /\ writes = <<>>

\* the command has ended on a missing path though a console output and a
\* writable file output were asked for
C23_Witness ==
    /\ pc = "exit"
    /\ ~Exists(working_path)
    /\ Out_console \in Range(output)
    /\ Out_file_out \in Range(output)
    /\ <<"out.md">> \notin disk_unwritable

\* C27: when the command has ended normally, the content has been written to
\* the path of every file output whose path can be written.
C27_EveryFileOutputIsWritten ==
    (pc = "exit" /\ exit_code = Some(0)) =>
        \A i \in 1..Len(output_configs) :
            (/\ output_configs[i].type = T_file
             /\ output_configs[i].path[1] \notin disk_unwritable)
                => \E k \in 1..Len(writes) :
                       /\ writes[k].path = output_configs[i].path[1]
                       /\ writes[k].text = markdown

\* what the handlers printed: standard output without the banner of the mode
HandlerOutput == SelectSeq(stdout, LAMBDA r : r.kind # "banner")

\* C28: after the Markdown is generated, the handlers are called one by one in
\* the order of the outputs, each once and with the generated content: the
\* i-th thing printed is the content for a console output and the report of a
\* write or of a failed write for a file output, every write holds the
\* content, and the command ends normally after the last handler, failed
\* writes included.
C28_EveryHandlerRunsOnceInOrder ==
    (pc \in {"output", "exit"} /\ handlers # <<>> /\ markdown # <<>>) =>
        /\ Len(HandlerOutput) = handler_index
        /\ \A i \in 1..handler_index :
               IF output_configs[i].type = T_console
               THEN HandlerOutput[i].kind = "markdown" /\ HandlerOutput[i].text = markdown
               ELSE HandlerOutput[i].kind \in {"written", "write_error"}
        /\ Len(writes) = Cardinality({i \in 1..handler_index :
                                         HandlerOutput[i].kind = "written"})
        /\ \A k \in 1..Len(writes) : writes[k].text = markdown
        /\ pc = "exit" => (handler_index = Len(handlers) /\ exit_code = Some(0))

\* the command has ended after a file output whose write failed and a console
\* output that followed it
C28_Witness ==
    /\ pc = "exit"
    /\ exit_code = Some(0)
    /\ Len(HandlerOutput) >= 2
    /\ HandlerOutput[1].kind = "write_error"
    /\ HandlerOutput[2].kind = "markdown"

\* the positions of the run inside load_gitignore
LoadPositions == {"load_gitignore", "read", "compile"}

\* C25: no step of a run changes the built-in default pattern table or the
\* lists given with --ignore and --extra-ignore, and no step of load_gitignore
\* changes the list passed to it.
C25_MatcherInputsStayUnchanged ==
    [][/\ default_table' = default_table
       /\ ignore_patterns' = ignore_patterns
       /\ extra_ignore' = extra_ignore
       /\ pc \in LoadPositions => patterns_to_use' = patterns_to_use]_vars

\* load_gitignore has returned in a run with extra patterns and a .gitignore
\* that holds patterns: its own list has grown by them, the list passed in
\* still is the defaults followed by the extra patterns
C25_Witness ==
    /\ pc = "scan"
    /\ ignore_patterns = None
    /\ extra_ignore # None /\ extra_ignore[1] # <<>>
    /\ gitignore_patterns # <<>>
    /\ ~read_failed
    /\ patterns_to_use = DEFAULT_IGNORE_PATTERNS \o extra_ignore[1]
    /\ patterns = patterns_to_use \o gitignore_patterns
====
